---------------------------- MODULE Spec2Model ----------------------------
(***************************************************************************)
(* Gamma-Poisson conjugate model (distributions/models/gp.hpp).            *)
(*                                                                         *)
(* The state machines of this module:                                      *)
(*   SpecGroup  : two Group objects driven by add_value / remove_value /   *)
(*                merge, with the exact multiset of held values as ghost.  *)
(*   Spec       : a VectorizedScorer (the "Mixture" scorer) with its four  *)
(*                parallel float arrays and the caller's list of groups.   *)
(*   SpecResize : the same VectorizedScorer with resize.                   *)
(*   SpecData   : the caller's groups under score_data.                    *)
(*                                                                         *)
(* Number representation.  TLC integers are 32-bit signed, so:             *)
(*   uint32_t  is a pair <<hi, lo>> of 16-bit halves, arithmetic mod 2^32; *)
(*   float     is a pair <<m, e>> meaning m * 2^e with 2^23 <= |m| < 2^24  *)
(*             (IEEE-754 binary32 normal numbers) or <<0, 0>> for zero;    *)
(*             every operation rounds to nearest, ties to even.  The sign  *)
(*             of zero, subnormals, infinities and NaN are not modelled:   *)
(*             no value of the model comes near them.                      *)
(***************************************************************************)
EXTENDS Integers, Sequences, FiniteSets, TLC

(***************************************************************************)
(* uint32_t                                                                *)
(***************************************************************************)
Two16 == 2^16

U32(hi, lo) == <<hi, lo>>

U32Zero == U32(0, 0)

U32One == U32(0, 1)

U32Max == U32(Two16 - 1, Two16 - 1)

\* a + b modulo 2^32
U32Add(a, b) ==
    LET lo == a[2] + b[2]
        hi == a[1] + b[1] + (lo \div Two16)
    IN  U32(hi % Two16, lo % Two16)

\* a - b modulo 2^32
U32Sub(a, b) ==
    LET lo == a[2] - b[2]
        borrow == IF lo < 0 THEN 1 ELSE 0
        hi == a[1] - b[1] - borrow
    IN  U32(hi % Two16, lo % Two16)

\* the uint32 holding a small natural number n < 2^16
U32Of(n) == U32(0, n)

(***************************************************************************)
(* float (binary32), round to nearest even                                 *)
(***************************************************************************)
Two23 == 2^23

Two24 == 2^24

Abs(x) == IF x < 0 THEN -x ELSE x

Sgn(x) == IF x < 0 THEN -1 ELSE 1

RECURSIVE BitLen(_)
BitLen(n) == IF n = 0 THEN 0 ELSE 1 + BitLen(n \div 2)

FZero == <<0, 0>>

\* The float nearest to sign * M * 2^E (M > 0), and whether rounding lost bits.
FRound(sign, M, E) ==
    LET k == BitLen(M)
    IN  IF k <= 24
        THEN [v |-> <<sign * M * 2^(24 - k), E - (24 - k)>>, inexact |-> FALSE]
        ELSE LET sh   == k - 24
                 q    == M \div 2^sh
                 r    == M % 2^sh
                 half == 2^(sh - 1)
                 up   == r > half \/ (r = half /\ q % 2 = 1)
                 q2   == IF up THEN q + 1 ELSE q
             IN  [v |-> IF q2 = Two24 THEN <<sign * Two23, E + sh + 1>>
                                      ELSE <<sign * q2, E + sh>>,
                  inexact |-> r # 0]

\* x shifted right by n bits, a lost 1 bit kept in the lowest bit (sticky)
ShiftRightJam(x, n) ==
    IF n >= 31 THEN 1
    ELSE LET q == x \div 2^n
         IN  IF x % 2^n # 0 /\ q % 2 = 0 THEN q + 1 ELSE q

\* a + b in float, with the inexact flag
FAddX(a, b) ==
    IF a[1] = 0 THEN [v |-> b, inexact |-> FALSE]
    ELSE IF b[1] = 0 THEN [v |-> a, inexact |-> FALSE]
    ELSE LET big   == IF a[2] >= b[2] THEN a ELSE b
             small == IF a[2] >= b[2] THEN b ELSE a
             d     == big[2] - small[2]
             H     == big[1] * 8
             L     == IF d <= 3 THEN small[1] * 2^(3 - d)
                      ELSE Sgn(small[1]) * ShiftRightJam(Abs(small[1]), d - 3)
             S     == H + L
         IN  IF S = 0 THEN [v |-> FZero, inexact |-> FALSE]
             ELSE FRound(Sgn(S), Abs(S), big[2] - 3)

FAdd(a, b) == FAddX(a, b).v

FNeg(a) == <<-a[1], a[2]>>

FSubX(a, b) == FAddX(a, FNeg(b))

FSub(a, b) == FSubX(a, b).v

\* a * b in float: the 48-bit product of the significands, then one rounding
FMul(a, b) ==
    IF a[1] = 0 \/ b[1] = 0 THEN FZero
    ELSE LET x   == Abs(a[1])
             y   == Abs(b[1])
             x1  == x \div 2^12
             x0  == x % 2^12
             y1  == y \div 2^12
             y0  == y % 2^12
             mid == x1 * y0 + x0 * y1
             low == (mid % 2^12) * 2^12 + x0 * y0
             hi  == x1 * y1 + (mid \div 2^12) + (low \div Two24)
             lo  == low % Two24
             \* product = hi * 2^24 + lo, 2^22 <= hi < 2^24; keep 27 bits + sticky
             top == hi * 8 + (lo \div 2^21)
             M   == IF lo % 2^21 # 0 /\ top % 2 = 0 THEN top + 1 ELSE top
         IN  FRound(Sgn(a[1]) * Sgn(b[1]), M, a[2] + b[2] + 21).v

\* (float) u for a uint32_t u: exact below 2^24, rounded above
U32ToFloat(u) ==
    IF u[1] = 0 /\ u[2] = 0 THEN FZero
    ELSE IF u[1] < 2^10 THEN FRound(1, u[1] * Two16 + u[2], 0).v
    ELSE \* 27..32 significant bits: keep 26, the rest in a sticky bit
         LET n   == BitLen(u[1]) - 10
             top == u[1] * 2^(16 - n) + (u[2] \div 2^n)
             M   == IF u[2] % 2^n # 0 /\ top % 2 = 0 THEN top + 1 ELSE top
         IN  FRound(1, M, n).v

(***************************************************************************)
(* Exact arithmetic for the rounding-error bounds: a non-negative multiple *)
(* of 2^-48 as four limbs <<a3, a2, a1, a0>> in base 2^24.                 *)
(***************************************************************************)
WZero == <<0, 0, 0, 0>>

WAdd(x, y) ==
    LET c0 == x[4] + y[4]
        c1 == x[3] + y[3] + (c0 \div Two24)
        c2 == x[2] + y[2] + (c1 \div Two24)
        c3 == x[1] + y[1] + (c2 \div Two24)
    IN  <<c3, c2 % Two24, c1 % Two24, c0 % Two24>>

WLeq(x, y) ==
    \/ x[1] < y[1]
    \/ x[1] = y[1] /\ x[2] < y[2]
    \/ x[1] = y[1] /\ x[2] = y[2] /\ x[3] < y[3]
    \/ x[1] = y[1] /\ x[2] = y[2] /\ x[3] = y[3] /\ x[4] <= y[4]

\* m * 2^e exactly, for 0 <= m < 2^24
WOfMag(m, e) ==
    LET s == e + 48
    IN  IF m = 0 THEN WZero
        ELSE IF s < 0 THEN <<0, 0, 0, m \div 2^(-s)>>
        ELSE LET r  == s % 24
                 hi == m \div 2^(24 - r)
                 lo == (m % 2^(24 - r)) * 2^r
             IN  CASE s \div 24 = 0 -> <<0, 0, hi, lo>>
                   [] s \div 24 = 1 -> <<0, hi, lo, 0>>
                   [] s \div 24 = 2 -> <<hi, lo, 0, 0>>

\* the positive and the negative part of a float, exactly
WPos(f) == IF f[1] > 0 THEN WOfMag(f[1], f[2]) ELSE WZero

WNeg(f) == IF f[1] < 0 THEN WOfMag(-f[1], f[2]) ELSE WZero

\* half a unit in the last place of a float (0 for zero)
HalfUlp(f) == IF f[1] = 0 THEN WZero ELSE WOfMag(1, f[2] - 1)

\* | f - t | <= bound, for a float f and exact t, bound
FWithin(f, t, bound) ==
    /\ WLeq(WPos(f), WAdd(WAdd(t, bound), WNeg(f)))
    /\ WLeq(WAdd(t, WNeg(f)), WAdd(bound, WPos(f)))

\* | f - g | <= bound, for floats f, g
FFWithin(f, g, bound) ==
    /\ WLeq(WAdd(WPos(f), WNeg(g)), WAdd(WAdd(WPos(g), WNeg(f)), bound))
    /\ WLeq(WAdd(WPos(g), WNeg(f)), WAdd(WAdd(WPos(f), WNeg(g)), bound))

(***************************************************************************)
(* Value and the external math primitive fast_log_factorial                *)
(***************************************************************************)
\* typedef uint32_t Value: the observations the model draws
Values == {U32(0, 0), U32(0, 2), U32(0, 7), U32Max}

\* fast_log_factorial(n): the float nearest to log(n!)
fast_log_factorial(n) ==
    CASE n = U32(0, 0)  -> FZero
      [] n = U32(0, 1)  -> FZero
      [] n = U32(0, 2)  -> <<11629080, -24>>
      [] n = U32(0, 3)  -> <<15030368, -23>>
      [] n = U32(0, 4)  -> <<13329724, -22>>
      [] n = U32(0, 5)  -> <<10040098, -21>>
      [] n = U32(0, 6)  -> <<13797690, -21>>
      [] n = U32(0, 7)  -> <<8939280, -20>>
      [] n = U32(0, 8)  -> <<11119732, -20>>
      [] n = U32(0, 9)  -> <<13423689, -20>>
      [] n = U32(0, 10) -> <<15838125, -20>>
      [] n = U32(0, 11) -> <<9176250, -19>>
      [] n = U32(0, 12) -> <<10479057, -19>>
      [] n = U32Max     -> <<11104792, 13>>

(***************************************************************************)
(* struct Shared, struct Group                                             *)
(***************************************************************************)
FOne == <<Two23, -23>>

\* Shared::EXAMPLE()
EXAMPLE == [alpha |-> FOne, inv_beta |-> FOne]

\* Group::init
Group_init == [count |-> U32Zero, sum |-> U32Zero, log_prod |-> FZero]

\* add_value without `sum += value`
Group_add_value_NoSum(g, value) ==
    [count    |-> U32Add(g.count, U32One),
     sum      |-> g.sum,
     log_prod |-> FAdd(g.log_prod, fast_log_factorial(value))]

\* Group::add_value: ++count; sum += value; log_prod += fast_log_factorial(value)
Group_add_value(g, value) ==
    [count    |-> U32Add(g.count, U32One),
     sum      |-> U32Add(g.sum, value),
     log_prod |-> FAdd(g.log_prod, fast_log_factorial(value))]

\* remove_value without `log_prod -= fast_log_factorial(value)`
Group_remove_value_NoLogProd(g, value) ==
    [count    |-> U32Sub(g.count, U32One),
     sum      |-> U32Sub(g.sum, value),
     log_prod |-> g.log_prod]

\* remove_value that refuses to go below an empty group
Group_remove_value_Checked(g, value) ==
    IF g.count = U32Zero THEN g
    ELSE [count    |-> U32Sub(g.count, U32One),
          sum      |-> U32Sub(g.sum, value),
          log_prod |-> FSub(g.log_prod, fast_log_factorial(value))]

\* Group::remove_value: --count; sum -= value; log_prod -= fast_log_factorial(value)
Group_remove_value(g, value) ==
    [count    |-> U32Sub(g.count, U32One),
     sum      |-> U32Sub(g.sum, value),
     log_prod |-> FSub(g.log_prod, fast_log_factorial(value))]

\* merge with `log_prod += log_prod` for `log_prod += source.log_prod`
Group_merge_OwnLogProd(g, source) ==
    [count    |-> U32Add(g.count, source.count),
     sum      |-> U32Add(g.sum, source.sum),
     log_prod |-> FAdd(g.log_prod, g.log_prod)]

\* Group::merge: count += source.count; sum += source.sum; log_prod += source.log_prod
Group_merge(g, source) ==
    [count    |-> U32Add(g.count, source.count),
     sum      |-> U32Add(g.sum, source.sum),
     log_prod |-> FAdd(g.log_prod, source.log_prod)]

(***************************************************************************)
(* The external math primitives fast_lgamma and fast_log, tabulated at the *)
(* integers 1, 2, ... (entry n is the float nearest to the exact value).   *)
(***************************************************************************)
LgammaTable ==
    << <<0, 0>>, <<0, 0>>, <<11629080, -24>>, <<15030368, -23>>,
       <<13329724, -22>>, <<10040098, -21>>, <<13797690, -21>>, <<8939280, -20>>,
       <<11119732, -20>>, <<13423689, -20>>, <<15838125, -20>>, <<9176250, -19>>,
       <<10479057, -19>>, <<11823829, -19>>, <<13207455, -19>>, <<14627253, -19>>,
       <<16080888, -19>>, <<8783154, -18>>, <<9540848, -18>>, <<10312715, -18>>,
       <<11098028, -18>>, <<11896131, -18>>, <<12706429, -18>>, <<13528380, -18>>,
       <<14361488, -18>>, <<15205297, -18>>, <<16059388, -18>>, <<8461686, -17>>,
       <<8898444, -17>>, <<9339803, -17>>, <<9785604, -17>>, <<10235704, -17>>,
       <<10689965, -17>>, <<11148259, -17>>, <<11610466, -17>>, <<12076473, -17>>,
       <<12546172, -17>>, <<13019462, -17>>, <<13496248, -17>>, <<13976438, -17>> >>

LogTable ==
    << <<0, 0>>, <<11629080, -24>>, <<9215828, -23>>, <<11629080, -23>>,
       <<13500944, -23>>, <<15030368, -23>>, <<16323477, -23>>, <<8721810, -22>> >>

\* the natural number a float holds (the float is a positive integer < 2^24)
NatOfFloat(x) == x[1] \div 2^(-x[2])

fast_lgamma(x) == LgammaTable[NatOfFloat(x)]

fast_log(x) == LogTable[NatOfFloat(x)]

(***************************************************************************)
(* Shared::plus_group, Group::score_data, struct Scorer, Group::score_value*)
(***************************************************************************)
\* post.alpha = alpha + group.sum; post.inv_beta = inv_beta + group.count
Shared_plus_group(sh, group) ==
    [alpha    |-> FAdd(sh.alpha, U32ToFloat(group.sum)),
     inv_beta |-> FAdd(sh.inv_beta, U32ToFloat(group.count))]

\* Group::score_data
Group_score_data(sh, group) ==
    LET post   == Shared_plus_group(sh, group)
        score0 == FSub(fast_lgamma(post.alpha), fast_lgamma(sh.alpha))
        score1 == FAdd(score0, FSub(FMul(sh.alpha, fast_log(sh.inv_beta)),
                                    FMul(post.alpha, fast_log(post.inv_beta))))
    IN  FAdd(score1, FNeg(group.log_prod))

\* Scorer::init
Scorer_init(sh, group) ==
    LET post        == Shared_plus_group(sh, group)
        score_coeff == FNeg(fast_log(FAdd(FOne, post.inv_beta)))
    IN  [score       |-> FAdd(FNeg(fast_lgamma(post.alpha)),
                              FMul(post.alpha,
                                   FAdd(fast_log(post.inv_beta), score_coeff))),
         post_alpha  |-> post.alpha,
         score_coeff |-> score_coeff]

\* eval without `- fast_log_factorial(value)`
Scorer_eval_NoLogFactorial(scorer, value) ==
    FAdd(FAdd(scorer.score,
              fast_lgamma(FAdd(scorer.post_alpha, U32ToFloat(value)))),
         FMul(scorer.score_coeff, U32ToFloat(value)))

\* Scorer::eval
Scorer_eval(scorer, value) ==
    FAdd(FSub(FAdd(scorer.score,
                   fast_lgamma(FAdd(scorer.post_alpha, U32ToFloat(value)))),
              fast_log_factorial(value)),
         FMul(scorer.score_coeff, U32ToFloat(value)))

\* Group::score_value
Group_score_value(sh, group, value) == Scorer_eval(Scorer_init(sh, group), value)

(***************************************************************************)
(* VectorFloat: a packed vector of floats.  A slot that was appended or    *)
(* exposed by resize and not written yet holds an indeterminate float.     *)
(***************************************************************************)
Indeterminate == <<0, 1>>

packed_add(vec) == Append(vec, Indeterminate)

\* swap with the last element and pop; pos counts from 0
packed_remove(vec, pos) ==
    [k \in 1..(Len(vec) - 1) |-> IF k = pos + 1 THEN vec[Len(vec)] ELSE vec[k]]

vector_resize(vec, size) ==
    [k \in 1..size |-> IF k <= Len(vec) THEN vec[k] ELSE Indeterminate]

(***************************************************************************)
(* State                                                                   *)
(***************************************************************************)
VARIABLES
    shared,     \* the Shared hyperparameters handed to every call
    grp,        \* SpecGroup: the two Group objects
    held,       \* ghost: per group, how many of each value it holds
    valid,      \* ghost: per group, no remove_value of a value it did not hold
    err,        \* ghost: per group, the rounding error log_prod may carry
    addsOnly,   \* ghost: per group, built by add_value alone since its init
    last,       \* ghost: the operation performed last, with its arguments
    rt,         \* ghost: tracks add_value(v) immediately followed by remove_value(v)
    steps,      \* number of operations performed
    groups,     \* slave.groups(): the caller's groups, one per slot
    mheld,      \* ghost: per entry of groups, how many of each value it holds
    score_,     \* VectorizedScorer::score_
    post_alpha_,    \* VectorizedScorer::post_alpha_
    score_coeff_,   \* VectorizedScorer::score_coeff_
    temp_,      \* VectorizedScorer::temp_ (scratch)
    active,     \* ghost: add_group calls minus remove_group calls
    resizes     \* ghost: resize calls

gvars == <<grp, held, valid, err, addsOnly, rt, steps>>

mvars == <<groups, mheld, score_, post_alpha_, score_coeff_, temp_, active,
           resizes>>

vars == <<shared, last, gvars, mvars>>

GroupIds == {1, 2}

\* bound: operations per run of SpecGroup
MaxSteps == 4

EmptyBag == [v \in Values |-> 0]

BagAdd(b, v) == [b EXCEPT ![v] = @ + 1]

BagRemove(b, v) == [b EXCEPT ![v] = IF @ > 0 THEN @ - 1 ELSE 0]

BagUnion(a, b) == [v \in Values |-> a[v] + b[v]]

RECURSIVE BagSizeOver(_, _)
BagSizeOver(b, S) ==
    IF S = {} THEN 0
    ELSE LET v == CHOOSE x \in S : TRUE IN b[v] + BagSizeOver(b, S \ {v})

BagSize(b) == BagSizeOver(b, Values)

\* the rounding error one float operation adds: half an ulp of its result
ErrInc(r) == IF r.inexact THEN HalfUlp(r.v) ELSE WZero

\* what `last` records: the operation, the group it acted on and that group
\* before it, the value, and for merge the source group, the source before the
\* call and whether both groups were then built by add_value alone
Op(name, i, value, before, j, srcBefore, pure) ==
    [op |-> name, g |-> i, value |-> value, before |-> before,
     src |-> j, srcBefore |-> srcBefore, pure |-> pure]

NoOp == Op("none", 0, U32Zero, Group_init, 0, Group_init, FALSE)

NoRt == [phase |-> "none", g |-> 0, value |-> U32Zero, before |-> Group_init,
         shared |-> EXAMPLE]

\* the VectorizedScorer and its caller's data right after construction
MInit ==
    /\ groups = <<>>
    /\ mheld = <<>>
    /\ score_ = <<>>
    /\ post_alpha_ = <<>>
    /\ score_coeff_ = <<>>
    /\ temp_ = <<>>
    /\ active = 0
    /\ resizes = 0

\* the two Group objects of SpecGroup right after init
GInit ==
    /\ grp = [i \in GroupIds |-> Group_init]
    /\ held = [i \in GroupIds |-> EmptyBag]
    /\ valid = [i \in GroupIds |-> TRUE]
    /\ err = [i \in GroupIds |-> WZero]
    /\ addsOnly = [i \in GroupIds |-> TRUE]
    /\ rt = NoRt
    /\ steps = 0

(***************************************************************************)
(* SpecGroup: Group objects under init / add_value / remove_value / merge  *)
(***************************************************************************)
InitGroup ==
    /\ shared = EXAMPLE
    /\ last = NoOp
    /\ GInit
    /\ MInit

\* group.init(shared, rng)
init(i) ==
    /\ steps < MaxSteps
    /\ grp[i] # Group_init
    /\ grp' = [grp EXCEPT ![i] = Group_init]
    /\ held' = [held EXCEPT ![i] = EmptyBag]
    /\ valid' = [valid EXCEPT ![i] = TRUE]
    /\ err' = [err EXCEPT ![i] = WZero]
    /\ addsOnly' = [addsOnly EXCEPT ![i] = TRUE]
    /\ last' = Op("init", i, U32Zero, grp[i], 0, Group_init, FALSE)
    /\ rt' = NoRt
    /\ steps' = steps + 1
    /\ UNCHANGED <<shared, mvars>>

\* group.add_value(shared, value, rng)
add_value(i, value) ==
    /\ steps < MaxSteps
    /\ grp' = [grp EXCEPT ![i] = Group_add_value(grp[i], value)]
    /\ held' = [held EXCEPT ![i] = BagAdd(@, value)]
    /\ err' = [err EXCEPT
                 ![i] = WAdd(@, ErrInc(FAddX(grp[i].log_prod,
                                             fast_log_factorial(value))))]
    /\ last' = Op("add_value", i, value, grp[i], 0, Group_init, FALSE)
    /\ rt' = [phase |-> "added", g |-> i, value |-> value, before |-> grp[i],
              shared |-> shared]
    /\ steps' = steps + 1
    /\ UNCHANGED <<shared, valid, addsOnly, mvars>>

\* group.remove_value(shared, value, rng): no check that the value is held
remove_value(i, value) ==
    /\ steps < MaxSteps
    /\ grp' = [grp EXCEPT ![i] = Group_remove_value(grp[i], value)]
    /\ held' = [held EXCEPT ![i] = BagRemove(@, value)]
    /\ valid' = [valid EXCEPT ![i] = @ /\ held[i][value] > 0]
    /\ err' = [err EXCEPT
                 ![i] = WAdd(@, ErrInc(FSubX(grp[i].log_prod,
                                             fast_log_factorial(value))))]
    /\ addsOnly' = [addsOnly EXCEPT ![i] = FALSE]
    /\ last' = Op("remove_value", i, value, grp[i], 0, Group_init, FALSE)
    /\ rt' = IF rt.phase = "added" /\ rt.g = i /\ rt.value = value
             THEN [rt EXCEPT !.phase = "removed"]
             ELSE NoRt
    /\ steps' = steps + 1
    /\ UNCHANGED <<shared, mvars>>

\* grp[i].merge(shared, grp[j], rng), for two distinct groups
merge(i, j) ==
    /\ steps < MaxSteps
    /\ i # j
    /\ grp' = [grp EXCEPT ![i] = Group_merge(grp[i], grp[j])]
    /\ held' = [held EXCEPT ![i] = BagUnion(@, held[j])]
    /\ valid' = [valid EXCEPT ![i] = @ /\ valid[j]]
    /\ err' = [err EXCEPT
                 ![i] = WAdd(WAdd(@, err[j]),
                             ErrInc(FAddX(grp[i].log_prod, grp[j].log_prod)))]
    /\ addsOnly' = [addsOnly EXCEPT ![i] = FALSE]
    /\ last' = Op("merge", i, U32Zero, grp[i], j, grp[j],
                  addsOnly[i] /\ addsOnly[j])
    /\ rt' = NoRt
    /\ steps' = steps + 1
    /\ UNCHANGED <<shared, mvars>>

NextGroup ==
    \/ \E i \in GroupIds : init(i)
    \/ \E i \in GroupIds, value \in Values : add_value(i, value)
    \/ \E i \in GroupIds, value \in Values : remove_value(i, value)
    \/ \E i \in GroupIds, j \in GroupIds : merge(i, j)

SpecGroup == InitGroup /\ [][NextGroup]_vars

(***************************************************************************)
(* The VectorizedScorer, with the groups its caller keeps.                 *)
(*   Spec       : add_group, remove_group, update_group, update_all,       *)
(*                score_value, and the caller mutating its groups          *)
(*   SpecResize : the structural operations together with resize          *)
(*   SpecData   : groups of several values under score_data               *)
(***************************************************************************)
FTwo == <<Two23, -22>>

\* the hyperparameters the model draws: Shared::EXAMPLE() and alpha = 2
Hypers == {EXAMPLE, [alpha |-> FTwo, inv_beta |-> FOne]}

\* the slot ids the model uses: at most three slots
SlotIds == {0, 1, 2}

\* the observations score_value scores and the groups of SpecData hold
MixValues == {U32(0, 2), U32(0, 7)}

\* the observation the groups of Spec and SpecResize hold
SlotValues == {U32(0, 7)}

\* what scores_accum holds when the caller hands it to score_value
AccumInits == {FZero, FNeg(FOne)}

\* bound: values held by all groups together, in Spec and SpecResize
MaxMixValues == 2

\* bound: values held by all groups together, in SpecData
MaxDataValues == 2

\* bound: resize calls
MaxResizes == 1

\* what `last` records of a call on the VectorizedScorer or on groups: its
\* name and arguments, and for score_value the scores_accum handed in and
\* handed back, for score_data the value returned
MOp(name, groupid, value, size, accum_in, accum_out, ret) ==
    [op |-> name, groupid |-> groupid, value |-> value, size |-> size,
     accum_in |-> accum_in, accum_out |-> accum_out, ret |-> ret]

MCall(name, groupid, value, size) ==
    MOp(name, groupid, value, size, <<>>, <<>>, Indeterminate)

RECURSIVE TotalHeld(_, _)
TotalHeld(hs, n) == IF n = 0 THEN 0 ELSE BagSize(hs[n]) + TotalHeld(hs, n - 1)

\* the cached coefficients as one value, and those of one slot (from 0)
Cache == [score_ |-> score_, post_alpha_ |-> post_alpha_,
          score_coeff_ |-> score_coeff_]

SlotOf(c, groupid) ==
    [score       |-> c.score_[groupid + 1],
     post_alpha  |-> c.post_alpha_[groupid + 1],
     score_coeff |-> c.score_coeff_[groupid + 1]]

Init ==
    /\ shared \in Hypers
    /\ last = MCall("none", 0, U32Zero, 0)
    /\ GInit
    /\ MInit

\* resize that leaves temp_ out
resize_NoTemp(size) ==
    /\ resizes < MaxResizes
    /\ score_' = vector_resize(score_, size)
    /\ post_alpha_' = vector_resize(post_alpha_, size)
    /\ score_coeff_' = vector_resize(score_coeff_, size)
    /\ resizes' = resizes + 1
    /\ last' = MCall("resize", 0, U32Zero, size)
    /\ UNCHANGED <<shared, gvars, groups, mheld, active, temp_>>

\* VectorizedScorer::resize
resize(size) ==
    /\ resizes < MaxResizes
    /\ score_' = vector_resize(score_, size)
    /\ post_alpha_' = vector_resize(post_alpha_, size)
    /\ score_coeff_' = vector_resize(score_coeff_, size)
    /\ temp_' = vector_resize(temp_, size)
    /\ resizes' = resizes + 1
    /\ last' = MCall("resize", 0, U32Zero, size)
    /\ UNCHANGED <<shared, gvars, groups, mheld, active>>

\* add_group that leaves score_coeff_ out
add_group_NoCoeff ==
    /\ Len(score_) < Cardinality(SlotIds)
    /\ Len(groups) < Cardinality(SlotIds)
    /\ score_' = packed_add(score_)
    /\ post_alpha_' = packed_add(post_alpha_)
    /\ temp_' = packed_add(temp_)
    /\ groups' = Append(groups, Group_init)
    /\ mheld' = Append(mheld, EmptyBag)
    /\ active' = active + 1
    /\ last' = MCall("add_group", Len(score_), U32Zero, 0)
    /\ UNCHANGED <<shared, gvars, resizes, score_coeff_>>

\* VectorizedScorer::add_group; the caller appends a fresh group to groups
add_group ==
    /\ Len(score_) < Cardinality(SlotIds)
    /\ Len(groups) < Cardinality(SlotIds)
    /\ score_' = packed_add(score_)
    /\ post_alpha_' = packed_add(post_alpha_)
    /\ score_coeff_' = packed_add(score_coeff_)
    /\ temp_' = packed_add(temp_)
    /\ groups' = Append(groups, Group_init)
    /\ mheld' = Append(mheld, EmptyBag)
    /\ active' = active + 1
    /\ last' = MCall("add_group", Len(score_), U32Zero, 0)
    /\ UNCHANGED <<shared, gvars, resizes>>

\* remove_group that removes slot 0 of post_alpha_ whatever groupid is
remove_group_FirstAlpha(groupid) ==
    /\ groupid < Len(score_)
    /\ score_' = packed_remove(score_, groupid)
    /\ post_alpha_' = packed_remove(post_alpha_, 0)
    /\ score_coeff_' = packed_remove(score_coeff_, groupid)
    /\ temp_' = packed_remove(temp_, groupid)
    /\ IF groupid < Len(groups)
       THEN /\ groups' = packed_remove(groups, groupid)
            /\ mheld' = packed_remove(mheld, groupid)
       ELSE UNCHANGED <<groups, mheld>>
    /\ active' = active - 1
    /\ last' = MCall("remove_group", groupid, U32Zero, 0)
    /\ UNCHANGED <<shared, gvars, resizes>>

\* VectorizedScorer::remove_group, for a valid slot; the caller removes the
\* group of that slot from groups the same way
remove_group(groupid) ==
    /\ groupid < Len(score_)
    /\ score_' = packed_remove(score_, groupid)
    /\ post_alpha_' = packed_remove(post_alpha_, groupid)
    /\ score_coeff_' = packed_remove(score_coeff_, groupid)
    /\ temp_' = packed_remove(temp_, groupid)
    /\ IF groupid < Len(groups)
       THEN /\ groups' = packed_remove(groups, groupid)
            /\ mheld' = packed_remove(mheld, groupid)
       ELSE UNCHANGED <<groups, mheld>>
    /\ active' = active - 1
    /\ last' = MCall("remove_group", groupid, U32Zero, 0)
    /\ UNCHANGED <<shared, gvars, resizes>>

\* update_group that writes base.post_alpha to score_coeff_ as well
VS_update_group_CoeffFromAlpha(c, sh, groupid, group) ==
    LET base == Scorer_init(sh, group)
    IN  [score_       |-> [c.score_ EXCEPT ![groupid + 1] = base.score],
         post_alpha_  |-> [c.post_alpha_ EXCEPT ![groupid + 1] = base.post_alpha],
         score_coeff_ |-> [c.score_coeff_ EXCEPT ![groupid + 1] = base.post_alpha]]

\* the body of VectorizedScorer::update_group on the cached coefficients c
VS_update_group(c, sh, groupid, group) ==
    LET base == Scorer_init(sh, group)
    IN  [score_       |-> [c.score_ EXCEPT ![groupid + 1] = base.score],
         post_alpha_  |-> [c.post_alpha_ EXCEPT ![groupid + 1] = base.post_alpha],
         score_coeff_ |-> [c.score_coeff_ EXCEPT ![groupid + 1] = base.score_coeff]]

\* VectorizedScorer::update_group(shared, groupid, groups[groupid], rng)
update_group(groupid) ==
    /\ groupid < Len(score_)
    /\ groupid < Len(groups)
    /\ LET c == VS_update_group(Cache, shared, groupid, groups[groupid + 1])
       IN  /\ score_' = c.score_
           /\ post_alpha_' = c.post_alpha_
           /\ score_coeff_' = c.score_coeff_
    /\ last' = MCall("update_group", groupid, U32Zero, 0)
    /\ UNCHANGED <<shared, gvars, groups, mheld, temp_, active, resizes>>

\* the loop of VectorizedScorer::update_all after group_count iterations
RECURSIVE VS_update_all(_, _, _, _)
VS_update_all(c, sh, gs, group_count) ==
    IF group_count = 0 THEN c
    ELSE VS_update_group(VS_update_all(c, sh, gs, group_count - 1),
                         sh, group_count - 1, gs[group_count])

\* VectorizedScorer::update_all(shared, slave, rng)
update_all ==
    /\ Len(groups) <= Len(score_)
    /\ LET c == VS_update_all(Cache, shared, groups, Len(groups))
       IN  /\ score_' = c.score_
           /\ post_alpha_' = c.post_alpha_
           /\ score_coeff_' = c.score_coeff_
    /\ last' = MCall("update_all", 0, U32Zero, 0)
    /\ UNCHANGED <<shared, gvars, groups, mheld, temp_, active, resizes>>

\* every slot has been written by update_group
AllUpdated ==
    \A k \in 1..Len(score_) :
        /\ score_[k] # Indeterminate
        /\ post_alpha_[k] # Indeterminate
        /\ score_coeff_[k] # Indeterminate

\* the body of VectorizedScorer::score_value: scores_accum[i] += eval of slot i
VS_score_value(c, value, scores_accum) ==
    [k \in 1..Len(scores_accum) |->
        FAdd(scores_accum[k], Scorer_eval(SlotOf(c, k - 1), value))]

\* VectorizedScorer::score_value(shared, value, scores_accum, rng), with
\* scores_accum sized to the slots by the caller and every slot updated
score_value(value, a) ==
    /\ Len(score_) > 0
    /\ AllUpdated
    /\ LET scores_accum == [k \in 1..Len(score_) |-> a]
       IN  last' = MOp("score_value", 0, value, 0, scores_accum,
                       VS_score_value(Cache, value, scores_accum), Indeterminate)
    /\ UNCHANGED <<shared, gvars, mvars>>

\* score_data without `score += -group.log_prod`
RECURSIVE VS_score_data_NoLogProd(_, _, _)
VS_score_data_NoLogProd(sh, gs, n) ==
    IF n = 0 THEN FZero
    ELSE LET alpha_part == fast_lgamma(sh.alpha)
             beta_part  == FMul(sh.alpha, fast_log(sh.inv_beta))
             post       == Shared_plus_group(sh, gs[n])
             score0     == VS_score_data_NoLogProd(sh, gs, n - 1)
             score1     == FAdd(score0, FSub(fast_lgamma(post.alpha), alpha_part))
         IN  FAdd(score1,
                  FSub(beta_part, FMul(post.alpha, fast_log(post.inv_beta))))

\* the loop of VectorizedScorer::score_data over the first n groups
RECURSIVE VS_score_data(_, _, _)
VS_score_data(sh, gs, n) ==
    IF n = 0 THEN FZero
    ELSE LET alpha_part == fast_lgamma(sh.alpha)
             beta_part  == FMul(sh.alpha, fast_log(sh.inv_beta))
             post       == Shared_plus_group(sh, gs[n])
             score0     == VS_score_data(sh, gs, n - 1)
             score1     == FAdd(score0, FSub(fast_lgamma(post.alpha), alpha_part))
             score2     == FAdd(score1,
                                FSub(beta_part,
                                     FMul(post.alpha, fast_log(post.inv_beta))))
         IN  FAdd(score2, FNeg(gs[n].log_prod))

\* VectorizedScorer::score_data(shared, slave, rng)
score_data ==
    /\ last' = MOp("score_data", 0, U32Zero, 0, <<>>, <<>>,
                   VS_score_data(shared, groups, Len(groups)))
    /\ UNCHANGED <<shared, gvars, mvars>>

\* groups[groupid].add_value(shared, value, rng)
groups_add_value(groupid, value, maxHeld) ==
    /\ groupid < Len(groups)
    /\ TotalHeld(mheld, Len(mheld)) < maxHeld
    /\ groups' = [groups EXCEPT ![groupid + 1] = Group_add_value(@, value)]
    /\ mheld' = [mheld EXCEPT ![groupid + 1] = BagAdd(@, value)]
    /\ last' = MCall("add_value", groupid, value, 0)
    /\ UNCHANGED <<shared, gvars, score_, post_alpha_, score_coeff_, temp_,
                   active, resizes>>

\* groups[groupid].remove_value(shared, value, rng), for a value it holds
groups_remove_value(groupid, value) ==
    /\ groupid < Len(groups)
    /\ mheld[groupid + 1][value] > 0
    /\ groups' = [groups EXCEPT ![groupid + 1] = Group_remove_value(@, value)]
    /\ mheld' = [mheld EXCEPT ![groupid + 1] = BagRemove(@, value)]
    /\ last' = MCall("remove_value", groupid, value, 0)
    /\ UNCHANGED <<shared, gvars, score_, post_alpha_, score_coeff_, temp_,
                   active, resizes>>

\* groups[groupid].merge(shared, groups[source], rng)
groups_merge(groupid, source, maxHeld) ==
    /\ groupid < Len(groups)
    /\ source < Len(groups)
    /\ groupid # source
    /\ BagSize(mheld[source + 1]) > 0
    /\ TotalHeld(mheld, Len(mheld)) + BagSize(mheld[source + 1]) <= maxHeld
    /\ groups' = [groups EXCEPT
                    ![groupid + 1] = Group_merge(@, groups[source + 1])]
    /\ mheld' = [mheld EXCEPT ![groupid + 1] = BagUnion(@, mheld[source + 1])]
    /\ last' = MCall("merge", groupid, U32Zero, source)
    /\ UNCHANGED <<shared, gvars, score_, post_alpha_, score_coeff_, temp_,
                   active, resizes>>

Next ==
    \/ add_group
    \/ \E groupid \in SlotIds : remove_group(groupid)
    \/ \E groupid \in SlotIds : update_group(groupid)
    \/ update_all
    \/ \E value \in MixValues, a \in AccumInits : score_value(value, a)
    \/ \E groupid \in SlotIds, value \in SlotValues :
          groups_add_value(groupid, value, MaxMixValues)
    \/ \E groupid \in SlotIds, value \in SlotValues :
          groups_remove_value(groupid, value)
    \/ \E groupid \in SlotIds, source \in SlotIds :
          groups_merge(groupid, source, MaxMixValues)

Spec == Init /\ [][Next]_vars

NextResize ==
    \/ \E size \in 0..Cardinality(SlotIds) : resize(size)
    \/ add_group
    \/ \E groupid \in SlotIds : remove_group(groupid)
    \/ \E groupid \in SlotIds : update_group(groupid)
    \/ \E groupid \in SlotIds, value \in SlotValues :
          groups_add_value(groupid, value, MaxMixValues)

SpecResize == Init /\ [][NextResize]_vars

NextData ==
    \/ add_group
    \/ \E groupid \in SlotIds, value \in MixValues :
          groups_add_value(groupid, value, MaxDataValues)
    \/ \E groupid \in SlotIds, source \in SlotIds :
          groups_merge(groupid, source, MaxDataValues)
    \/ score_data

SpecData == Init /\ [][NextData]_vars

(***************************************************************************)
(* What a Group should hold, computed exactly from the ghost multiset      *)
(***************************************************************************)
\* the arithmetic sum of the held values as <<H, L>> = H * 2^16 + L, H unbounded
RECURSIVE ArithSumOver(_, _)
ArithSumOver(b, S) ==
    IF S = {} THEN <<0, 0>>
    ELSE LET v    == CHOOSE x \in S : TRUE
             rest == ArithSumOver(b, S \ {v})
             lo   == rest[2] + b[v] * v[2]
         IN  <<rest[1] + b[v] * v[1] + (lo \div Two16), lo % Two16>>

ArithSum(b) == ArithSumOver(b, Values)

\* the same sum modulo 2^32
SumMod32(b) == U32(ArithSum(b)[1] % Two16, ArithSum(b)[2])

RECURSIVE WTimes(_, _)
WTimes(n, w) == IF n = 0 THEN WZero ELSE WAdd(w, WTimes(n - 1, w))

\* the exact (unrounded) sum of fast_log_factorial over the held values
RECURSIVE LogFactSumOver(_, _)
LogFactSumOver(b, S) ==
    IF S = {} THEN WZero
    ELSE LET v == CHOOSE x \in S : TRUE
         IN  WAdd(WTimes(b[v], WPos(fast_log_factorial(v))),
                  LogFactSumOver(b, S \ {v}))

LogFactSum(b) == LogFactSumOver(b, Values)

\* every order in which the values of a multiset can be added
SeqBag(q) == [v \in Values |-> Cardinality({k \in DOMAIN q : q[k] = v})]

Orders(b) == {q \in [1..BagSize(b) -> Values] : SeqBag(q) = b}

\* the Group built by add_value of q[1], ..., q[n] on a fresh group
RECURSIVE BuildDirect(_, _)
BuildDirect(q, n) ==
    IF n = 0 THEN Group_init ELSE Group_add_value(BuildDirect(q, n - 1), q[n])

\* the rounding error that build may carry
RECURSIVE BuildErr(_, _)
BuildErr(q, n) ==
    IF n = 0 THEN WZero
    ELSE WAdd(BuildErr(q, n - 1),
              ErrInc(FAddX(BuildDirect(q, n - 1).log_prod,
                           fast_log_factorial(q[n]))))

(***************************************************************************)
(* C1                                                                      *)
(***************************************************************************)
\* C1 as stated: a group driven only by init, add_value, remove_value of a held
\* value and merge of such groups has count = the number of values held,
\* sum = their arithmetic sum and log_prod = the sum of their log-factorials
\* (read as the float sum of the log-factorials of the held values, added up
\* in some order).
C1_Original ==
    \A i \in GroupIds :
        valid[i] =>
            /\ grp[i].count = U32Of(BagSize(held[i]))
            /\ grp[i].sum = ArithSum(held[i])
            /\ \E q \in Orders(held[i]) :
                  BuildDirect(q, Len(q)).log_prod = grp[i].log_prod

\* C1 amended: count is the number of values held, sum is their arithmetic sum
\* modulo 2^32 (uint32_t), and log_prod is the sum of their log-factorials up
\* to the float rounding accumulated so far: at most half an ulp of the result
\* for each += / -= that was inexact.
C1_Consistent ==
    \A i \in GroupIds :
        valid[i] =>
            /\ grp[i].count = U32Of(BagSize(held[i]))
            /\ grp[i].sum = SumMod32(held[i])
            /\ FWithin(grp[i].log_prod, LogFactSum(held[i]), err[i])

\* C1 witness: a group that holds values after a remove_value of a held value,
\* with a log_prod that has been rounded on the way
C1_Witness ==
    /\ last.op = "remove_value"
    /\ valid[last.g]
    /\ BagSize(held[last.g]) >= 1
    /\ grp[last.g].log_prod # FZero
    /\ err[last.g] # WZero

(***************************************************************************)
(* C2                                                                      *)
(***************************************************************************)
\* C2 as stated: add_value(v) immediately followed by remove_value(v) restores
\* the group's (count, sum, log_prod), and Shared is untouched.
C2_Original ==
    rt.phase = "removed" =>
        /\ grp[rt.g] = rt.before
        /\ shared = rt.shared

\* C2 amended: the round trip restores count and sum exactly and leaves Shared
\* untouched; log_prod comes back to within the rounding of the two float
\* operations (half an ulp of each inexact result), hence exactly when neither
\* the addition nor the subtraction rounds.
C2_RoundTrip ==
    rt.phase = "removed" =>
        LET lf   == fast_log_factorial(rt.value)
            up   == FAddX(rt.before.log_prod, lf)
            down == FSubX(up.v, lf)
        IN  /\ grp[rt.g].count = rt.before.count
            /\ grp[rt.g].sum = rt.before.sum
            /\ FFWithin(grp[rt.g].log_prod, rt.before.log_prod,
                        WAdd(ErrInc(up), ErrInc(down)))
            /\ shared = rt.shared

\* C2 witness: a round trip with a value whose log-factorial is not 0, on a
\* group that was not empty
C2_Witness ==
    /\ rt.phase = "removed"
    /\ fast_log_factorial(rt.value) # FZero
    /\ rt.before.log_prod # FZero
    /\ rt.before.count # U32Zero

(***************************************************************************)
(* C3                                                                      *)
(***************************************************************************)
\* the two groups of a merge were built by add_value alone
MergeOfBuilt == last.op = "merge" /\ last.pure

\* C3 as stated: for A, B built by add_value, B.merge(A) = A.merge(B) = the
\* group built by adding all their values to a fresh group in any order, in
\* count, sum and log_prod; and merge leaves its source unchanged.
C3_Original ==
    MergeOfBuilt =>
        /\ grp[last.g] = Group_merge(last.srcBefore, last.before)
        /\ \A q \in Orders(held[last.g]) : BuildDirect(q, Len(q)) = grp[last.g]
        /\ grp[last.src] = last.srcBefore

\* C3 amended: the two merge orders agree in count, sum and log_prod; the
\* directly built group agrees in count and sum, and in log_prod up to the
\* float rounding of the additions on either side; the source is unchanged.
C3_Merge ==
    MergeOfBuilt =>
        /\ grp[last.g] = Group_merge(last.srcBefore, last.before)
        /\ \A q \in Orders(held[last.g]) :
              LET d == BuildDirect(q, Len(q))
              IN  /\ d.count = grp[last.g].count
                  /\ d.sum = grp[last.g].sum
                  /\ FFWithin(d.log_prod, grp[last.g].log_prod,
                              WAdd(err[last.g], BuildErr(q, Len(q))))
        /\ grp[last.src] = last.srcBefore

\* C3 witness: a merge of two non-empty groups built by add_value
C3_Witness ==
    /\ MergeOfBuilt
    /\ last.before.count # U32Zero
    /\ last.srcBefore.count # U32Zero
    /\ last.before.log_prod # last.srcBefore.log_prod

(***************************************************************************)
(* C10                                                                     *)
(***************************************************************************)
\* C10: remove_value never checks: it always decrements count and sum modulo
\* 2^32, so on a fresh group it leaves count = 2^32 - 1 and sum = -value mod
\* 2^32 and the group no longer has count = number of values held; add_value
\* and merge wrap modulo 2^32 in the same way.
C10_Wraps ==
    LET g == grp[last.g]
        b == last.before
    IN  /\ last.op = "remove_value" =>
              /\ U32Add(g.count, U32One) = b.count
              /\ U32Add(g.sum, last.value) = b.sum
              /\ b = Group_init =>
                    /\ g.count = U32(65535, 65535)
                    /\ U32Add(g.sum, last.value) = U32Zero
                    /\ g.count # U32Of(BagSize(held[last.g]))
        /\ last.op = "add_value" =>
              /\ U32Sub(g.count, U32One) = b.count
              /\ U32Sub(g.sum, last.value) = b.sum
              /\ b.count = U32(65535, 65535) => g.count = U32Zero
        /\ last.op = "merge" =>
              /\ U32Sub(g.count, last.srcBefore.count) = b.count
              /\ U32Sub(g.sum, last.srcBefore.sum) = b.sum

\* C10 witness: a remove_value on a fresh group, which held nothing
C10_Witness ==
    /\ last.op = "remove_value"
    /\ last.before = Group_init
    /\ last.value # U32Zero
    /\ grp[last.g].count = U32Max
    /\ ~valid[last.g]

(***************************************************************************)
(* C4                                                                      *)
(***************************************************************************)
\* the four parallel arrays all have length n
LengthsOf(arrays, n) == \A k \in 1..4 : Len(arrays[k]) = n

Arrays == <<score_, post_alpha_, score_coeff_, temp_>>

Lengths(n) == LengthsOf(Arrays, n)

\* C4: remove_group(slot_id) on N >= 1 slots, slot_id < N, leaves N - 1 slots;
\* the cached coefficients that were at slot N - 1 now sit at slot_id (when
\* slot_id is not itself the last slot, which is then simply dropped), every
\* other slot keeps its cached coefficients; with 3 slots, remove_group(0)
\* leaves 2 slots and slot 0 holds what slot 2 held.
C4_SwapWithLast ==
    [][last'.op = "remove_group" =>
        LET N       == Len(score_)
            slot_id == last'.groupid
        IN  /\ N >= 1
            /\ slot_id < N
            /\ Lengths(N)
            /\ LengthsOf(Arrays', N - 1)
            /\ slot_id < N - 1 =>
                  SlotOf(Cache', slot_id) = SlotOf(Cache, N - 1)
            /\ \A j \in 0..(N - 2) :
                  j # slot_id => SlotOf(Cache', j) = SlotOf(Cache, j)
            /\ (N = 3 /\ slot_id = 0) =>
                  /\ Len(score_') = 2
                  /\ SlotOf(Cache', 0) = SlotOf(Cache, 2)]_vars

\* C4 witness: remove_group(0) was called on three slots; the two slots left
\* hold different coefficients, and slot 0 those of a group that holds a value
C4_Witness ==
    /\ last.op = "remove_group"
    /\ last.groupid = 0
    /\ Lengths(2)
    /\ score_[1] # Indeterminate
    /\ score_[2] # Indeterminate
    /\ SlotOf(Cache, 0) # SlotOf(Cache, 1)
    /\ groups[1].count # U32Zero
    /\ SlotOf(Cache, 0) = Scorer_init(shared, groups[1])

(***************************************************************************)
(* C5                                                                      *)
(***************************************************************************)
\* C5: under add_group, remove_group of a valid slot, update_group and
\* update_all, the four parallel arrays have the same length N, N is the
\* number of add_group calls minus remove_group calls, the slot ids are the
\* dense integers [0, N), and add_group creates the slot whose id is the
\* length before the call, leaving the slots before it as they were.
C5_Dense ==
    /\ [](/\ Lengths(active)
          /\ DOMAIN score_ = {j + 1 : j \in 0..(active - 1)}
          /\ Len(groups) = active)
    /\ [][last'.op = "add_group" =>
            /\ last'.groupid = Len(score_)
            /\ DOMAIN score_' = DOMAIN score_ \cup {last'.groupid + 1}
            /\ \A j \in 0..(Len(score_) - 1) :
                  SlotOf(Cache', j) = SlotOf(Cache, j)]_vars

\* C5 witness: three slots after an add_group that followed a remove_group
C5_Witness ==
    /\ last.op = "add_group"
    /\ last.groupid = 2
    /\ Lengths(3)
    /\ active = 3
    /\ score_[1] # Indeterminate
    /\ score_[3] = Indeterminate

(***************************************************************************)
(* C7                                                                      *)
(***************************************************************************)
\* slot j caches what Scorer::init computes from the group of that slot
FreshSlot(c, sh, gs, j) == SlotOf(c, j) = Scorer_init(sh, gs[j + 1])

Fresh(j) == FreshSlot(Cache, shared, groups, j)

\* C7: update_group(slot_id, group) overwrites the cached coefficients of
\* slot_id with what Scorer::init computes from the group, and nothing else:
\* the other slots and the lengths are unchanged; add_value, remove_value and
\* merge on a group (and score_value) never change a cached coefficient;
\* update_all leaves every slot as update_group of that slot would.
C7_UpdateOnly ==
    [][/\ last'.op = "update_group" =>
            /\ FreshSlot(Cache', shared, groups, last'.groupid)
            /\ \A j \in 0..(Len(score_) - 1) :
                  j # last'.groupid => SlotOf(Cache', j) = SlotOf(Cache, j)
            /\ LengthsOf(Arrays', Len(score_))
            /\ UNCHANGED <<groups, shared>>
       /\ last'.op \in {"add_value", "remove_value", "merge", "score_value"} =>
            /\ Cache' = Cache
            /\ LengthsOf(Arrays', Len(score_))
       /\ last'.op = "update_all" =>
            /\ \A j \in 0..(Len(score_) - 1) :
                  FreshSlot(Cache', shared, groups, j)
            /\ LengthsOf(Arrays', Len(score_))
            /\ UNCHANGED <<groups, shared>>]_vars

\* C7 witness: update_group has just refreshed the slot of a group that holds
\* values, while another slot, written before, is stale
C7_Witness ==
    /\ last.op = "update_group"
    /\ groups[last.groupid + 1].count # U32Zero
    /\ Fresh(last.groupid)
    /\ \E j \in 0..(Len(score_) - 1) :
          /\ j # last.groupid
          /\ score_[j + 1] # Indeterminate
          /\ ~Fresh(j)

(***************************************************************************)
(* C6                                                                      *)
(***************************************************************************)
\* score + lgamma(post_alpha + value) - log_factorial(value)
\*       + score_coeff * value, from the coefficients cached at slot j
EvalOfSlot(j, value) ==
    LET x == U32ToFloat(value)
    IN  FAdd(FSub(FAdd(score_[j + 1],
                       fast_lgamma(FAdd(post_alpha_[j + 1], x))),
                  fast_log_factorial(value)),
             FMul(score_coeff_[j + 1], x))

\* C6: score_value adds, for every slot i, Scorer::eval(value) of the
\* coefficients cached at slot i to what accum[i] held; it does not overwrite
\* accum; a slot refreshed from group g_i adds g_i.score_value(value); the
\* cached coefficients and the number of slots are unchanged.
C6_Accumulates ==
    /\ [](last.op = "score_value" =>
            /\ Len(last.accum_out) = Len(score_)
            /\ Len(last.accum_in) = Len(score_)
            /\ \A j \in 0..(Len(score_) - 1) :
                  /\ last.accum_out[j + 1] =
                        FAdd(last.accum_in[j + 1], EvalOfSlot(j, last.value))
                  /\ Fresh(j) =>
                        last.accum_out[j + 1] =
                            FAdd(last.accum_in[j + 1],
                                 Group_score_value(shared, groups[j + 1],
                                                   last.value)))
    /\ [][last'.op = "score_value" =>
            /\ Cache' = Cache
            /\ LengthsOf(Arrays', Len(score_))
            /\ UNCHANGED <<groups, shared>>]_vars

\* C6 witness: score_value on two slots with different coefficients, one of
\* them fresh from a group that holds a value, into an accum that held -1
C6_Witness ==
    /\ last.op = "score_value"
    /\ Lengths(2)
    /\ last.accum_in[1] = FNeg(FOne)
    /\ last.accum_out[1] # last.accum_out[2]
    /\ last.accum_out[1] # EvalOfSlot(0, last.value)
    /\ Fresh(0)
    /\ groups[1].count # U32Zero
    /\ last.value # U32Zero

DataTerms(sh, group) ==
    LET post == Shared_plus_group(sh, group)
    IN  <<FSub(fast_lgamma(post.alpha), fast_lgamma(sh.alpha)),
          FSub(FMul(sh.alpha, fast_log(sh.inv_beta)),
               FMul(post.alpha, fast_log(post.inv_beta))),
          FNeg(group.log_prod)>>

\* the rounding of the two additions Group::score_data makes over its terms
GroupDataErr(sh, group) ==
    LET t == DataTerms(sh, group)
    IN  WAdd(ErrInc(FAddX(t[1], t[2])), ErrInc(FAddX(FAdd(t[1], t[2]), t[3])))

\* the orders in which n groups can be summed
Perms(n) == {q \in [1..n -> 1..n] : \A a, b \in 1..n : q[a] = q[b] => a = b}

\* the float sum of Group::score_data over the groups, taken in the order q
RECURSIVE SumOfGroupData(_, _, _, _)
SumOfGroupData(sh, gs, q, n) ==
    IF n = 0 THEN FZero
    ELSE FAdd(SumOfGroupData(sh, gs, q, n - 1), Group_score_data(sh, gs[q[n]]))

\* the rounding that sum may carry
RECURSIVE SumOfGroupDataErr(_, _, _, _)
SumOfGroupDataErr(sh, gs, q, n) ==
    IF n = 0 THEN WZero
    ELSE WAdd(WAdd(SumOfGroupDataErr(sh, gs, q, n - 1),
                   GroupDataErr(sh, gs[q[n]])),
              ErrInc(FAddX(SumOfGroupData(sh, gs, q, n - 1),
                           Group_score_data(sh, gs[q[n]]))))

\* the rounding of the running total of VectorizedScorer::score_data
RECURSIVE MixDataErr(_, _, _)
MixDataErr(sh, gs, n) ==
    IF n = 0 THEN WZero
    ELSE LET t  == DataTerms(sh, gs[n])
             s0 == VS_score_data(sh, gs, n - 1)
             s1 == FAddX(s0, t[1])
             s2 == FAddX(s1.v, t[2])
             s3 == FAddX(s2.v, t[3])
         IN  WAdd(WAdd(MixDataErr(sh, gs, n - 1), ErrInc(s1)),
                  WAdd(ErrInc(s2), ErrInc(s3)))

\* C8 as stated: VectorizedScorer::score_data returns the sum over the groups
\* of Group::score_data (as floats, added up in some order), and 0 for no
\* group.
C8_Original ==
    last.op = "score_data" =>
        LET n == Len(groups)
        IN  /\ \E q \in Perms(n) : last.ret = SumOfGroupData(shared, groups, q, n)
            /\ n = 0 => last.ret = FZero

\* C8 amended: score_data returns 0 for no group and exactly
\* Group::score_data for a single group; for several groups it returns the
\* running float total of the three terms of every group, which agrees with
\* the sum of the Group::score_data values up to the rounding of the float
\* additions on either side (half an ulp for each inexact one); it changes
\* neither the groups nor the cached coefficients.
C8_SumUpToRounding ==
    /\ [](last.op = "score_data" =>
            LET n == Len(groups)
            IN  /\ n = 0 => last.ret = FZero
                /\ n = 1 => last.ret = Group_score_data(shared, groups[1])
                /\ \A q \in Perms(n) :
                      FFWithin(last.ret, SumOfGroupData(shared, groups, q, n),
                               WAdd(MixDataErr(shared, groups, n),
                                    SumOfGroupDataErr(shared, groups, q, n))))
    /\ [][last'.op = "score_data" =>
            UNCHANGED <<groups, shared, score_, post_alpha_, score_coeff_,
                        temp_>>]_vars

\* C8 witness: score_data over three groups of different contents, where the
\* result is not the float sum of the three Group::score_data values
C8_Witness ==
    /\ last.op = "score_data"
    /\ Len(groups) = 3
    /\ groups[1].count # U32Zero
    /\ groups[2].count # U32Zero
    /\ groups[1] # groups[2]
    /\ last.ret # SumOfGroupData(shared, groups, <<1, 2, 3>>, 3)

=============================================================================
